---- MODULE Spec2Model ----
(***************************************************************************)
(* Model of pyQuASAR_genotype/genotype.py: main, parse_arguments,          *)
(* get_genotypes (two worker-pool batches and the combined genotype call)  *)
(* and prepare_quasar_input (the per-file pipeline of external steps).     *)
(***************************************************************************)
EXTENDS Integers, Sequences, FiniteSets, TLC

\* ------------------------------------------------------------------------
\* Bounds of the model
\* ------------------------------------------------------------------------
MaxFiles == 2
MaxProcesses == 2
MaxMemProcesses == 7
MaxMemFiles == 7
MaxMemory == 29

None == "None"

Min(a, b) == IF a <= b THEN a ELSE b
Max(a, b) == IF a >= b THEN a ELSE b

\* ------------------------------------------------------------------------
\* Python float arithmetic (IEEE 754 binary64, round to nearest, ties to
\* even).  A positive float is [e, m]: m is the 53-bit significand, most
\* significant bit first (m[1] = 1), and the value is 1.m[2..53] * 2^e.
\* Zero is [e |-> 0, m |-> <<>>].  All intermediate integers stay small.
\* ------------------------------------------------------------------------
MantBits == 53

FZero == [e |-> 0, m |-> << >>]

RECURSIVE Pow2(_)
Pow2(n) == IF n = 0 THEN 1 ELSE 2 * Pow2(n - 1)

\* Largest e (possibly negative) with 2^e * b <= a, for a >= 1, b >= 1.
RECURSIVE ExpUp(_, _, _)
ExpUp(a, b, e) == IF 2 * Pow2(e) * b <= a THEN ExpUp(a, b, e + 1) ELSE e
RECURSIVE ExpDown(_, _, _)
ExpDown(a, b, e) == IF a * Pow2(e) >= b THEN -e ELSE ExpDown(a, b, e + 1)
QuotExp(a, b) == IF a >= b THEN ExpUp(a, b, 0) ELSE ExpDown(a, b, 1)

\* bits + 1 as a binary number of the same width: the last 0 becomes 1 and
\* the 1s after it become 0.  All 1s: the sum is 2^MantBits, rounded back to
\* MantBits bits as 1 followed by 0s, one exponent higher.
RoundUp(e, m) ==
    LET zeros == {i \in 1..MantBits : m[i] = 0}
    IN IF zeros = {}
       THEN [e |-> e + 1, m |-> [i \in 1..MantBits |-> IF i = 1 THEN 1 ELSE 0]]
       ELSE LET z == CHOOSE i \in zeros : \A j \in zeros : j <= i
            IN [e |-> e,
                m |-> [i \in 1..MantBits |->
                         IF i < z THEN m[i] ELSE IF i = z THEN 1 ELSE 0]]

\* away: -1 the discarded part is below half a unit, 0 exactly half, 1 above.
RoundNearestEven(e, m, away) ==
    IF away > 0 \/ (away = 0 /\ m[MantBits] = 1) THEN RoundUp(e, m)
    ELSE [e |-> e, m |-> m]

\* int / int, Python's true division: the correctly rounded quotient, by
\* long division of num by den, where 1 <= num/den < 2.
FloatDiv(a, b) ==
    IF a = 0 THEN FZero
    ELSE LET e == QuotExp(a, b)
             num == IF e >= 0 THEN a ELSE a * Pow2(-e)
             den == IF e >= 0 THEN b * Pow2(e) ELSE b
             \* Rem[i]: the remainder after i significand bits
             Rem[i \in 1..MantBits] ==
                 IF i = 1 THEN num - den ELSE (2 * Rem[i - 1]) % den
             m == [i \in 1..MantBits |->
                     IF i = 1 THEN 1 ELSE (2 * Rem[i - 1]) \div den]
             last == Rem[MantBits]
             away == IF 2 * last > den THEN 1
                     ELSE IF 2 * last = den THEN 0 ELSE -1
         IN RoundNearestEven(e, m, away)

FloatOfInt(a) == FloatDiv(a, 1)

\* The binary digits of a positive integer, most significant first.
RECURSIVE BinDigits(_)
BinDigits(c) == IF c = 0 THEN << >> ELSE BinDigits(c \div 2) \o <<c % 2>>

\* m * k as a binary number (exact), most significant bit first.
MulBits(m, k) ==
    LET \* Carry[j]: the carry out of the j lowest bits
        Carry[j \in 0..MantBits] ==
            IF j = 0 THEN 0
            ELSE (m[MantBits + 1 - j] * k + Carry[j - 1]) \div 2
        low == [i \in 1..MantBits |-> (m[i] * k + Carry[MantBits - i]) % 2]
    IN BinDigits(Carry[MantBits]) \o low

AllZero(bits) == \A i \in 1..Len(bits) : bits[i] = 0

\* float * int: the correctly rounded product (the int converts exactly).
FloatMulInt(f, k) ==
    IF f = FZero \/ k = 0 THEN FZero
    ELSE LET p == MulBits(f.m, k)
             extra == Len(p) - MantBits
             kept == SubSeq(p, 1, MantBits)
             tail == SubSeq(p, MantBits + 1, Len(p))
             away == IF extra = 0 \/ tail[1] = 0
                     THEN -1
                     ELSE IF AllZero(SubSeq(tail, 2, Len(tail))) THEN 0 ELSE 1
         IN RoundNearestEven(f.e + extra, kept, away)

\* Lexicographic order of two significands of the same width.
BitsLess(x, y) ==
    \E i \in 1..MantBits :
        x[i] < y[i] /\ \A j \in 1..(i - 1) : x[j] = y[j]

\* f < g for non-negative floats.
FloatLess(f, g) ==
    IF g = FZero THEN FALSE
    ELSE IF f = FZero THEN TRUE
    ELSE IF f.e # g.e THEN f.e < g.e
    ELSE BitsLess(f.m, g.m)

\* int(x) for a non-negative float below 2^MantBits: truncation.
RECURSIVE BitsValue(_)
BitsValue(bits) ==
    IF bits = << >> THEN 0
    ELSE 2 * BitsValue(SubSeq(bits, 1, Len(bits) - 1)) + bits[Len(bits)]
IntOfFloat(f) ==
    IF f = FZero \/ f.e < 0 THEN 0 ELSE BitsValue(SubSeq(f.m, 1, f.e + 1))

\* ------------------------------------------------------------------------
\* Inputs.  A path is a sequence of tokens, so that basename, split and
\* replace act on it as the string operations of the code do.
\* ------------------------------------------------------------------------
SingleEndUniverse ==
    << <<"d1", "/", "x", ".bam">>,
       <<"d1", "/", "y", ".bam">>,
       <<"d2", "/", "x", ".fastq", ".gz">> >>

PairedEndUniverse ==
    << <<"d3", "/", "x", ".bam">>,
       <<"d1", "/", "p_1", ".fastq", ",", "d1", "/", "p_2", ".fastq">> >>

\* The subsequence of U at the indices S, in the order of U.
Pick(U, S) ==
    LET F[i \in 0..Len(U)] ==
            IF i = 0 THEN << >>
            ELSE IF i \in S THEN Append(F[i - 1], U[i]) ELSE F[i - 1]
    IN F[Len(U)]

InputLists(U) == {Pick(U, S) : S \in SUBSET (1..Len(U))}

VcfLines == <<"##fileformat=VCF", "chr1 variant">>

VARIABLES
    args,            \* the parsed command line (argparse namespace)
    output_options,  \* args.quiet and args.vcf_chr, once main has read them
    pc,              \* position of main / get_genotypes
    pool,            \* size of the open Pool, or None
    pools_created,   \* sizes of every Pool created, in order
    temp_dir_name,   \* the open TemporaryDirectory, or None
    temp_count,      \* number of temporary directories created
    tasks,           \* task id -> state of that prepare_quasar_input call
    fs,              \* paths of the files that exist
    writes,          \* <<task id, path>> for every file write of a worker
    genotype_calls,  \* every call of pyQuASAR.genotype: arguments, missing files
    vcf,             \* the value bound to vcf in main
    stdout,          \* lines printed
    split_vcf,       \* lines handed to the per-chromosome files
    error,           \* the exception that ended main, or None
    mem              \* parameter fan-out of one batch (memory specification)

vars == <<args, output_options, pc, pool, pools_created, temp_dir_name, temp_count, tasks, fs,
          writes, genotype_calls, vcf, stdout, split_vcf, error, mem>>

TmpNames == <<"tmp1", "tmp2", "tmp3">>

\* ------------------------------------------------------------------------
\* prepare_quasar_input: path derivation
\* ------------------------------------------------------------------------
RECURSIVE IndexOf(_, _, _)
IndexOf(toks, t, i) ==
    IF i > Len(toks) THEN 0
    ELSE IF toks[i] = t THEN i ELSE IndexOf(toks, t, i + 1)

RECURSIVE LastIndexOf(_, _, _)
LastIndexOf(toks, t, i) ==
    IF i = 0 THEN 0
    ELSE IF toks[i] = t THEN i ELSE LastIndexOf(toks, t, i - 1)

\* input_file_path.split(',')[0] when it holds a comma, else the path itself
FirstPath(toks) ==
    LET c == IndexOf(toks, ",", 1)
    IN IF c = 0 THEN toks ELSE SubSeq(toks, 1, c - 1)

\* os.path.basename
Basename(toks) == SubSeq(toks, LastIndexOf(toks, "/", Len(toks)) + 1, Len(toks))

\* str.replace(t, '')
Replace(toks, t) == SelectSeq(toks, LAMBDA x : x # t)

Stem(input) ==
    Replace(Replace(Replace(Basename(FirstPath(input)), ".bam"), ".fastq"), ".gz")

\* os.path.join(directory, stem), and a file name formed from a prefix
Prefix(directory, input) == [dir |-> directory, stem |-> Stem(input)]
PathOf(prefix, ext) == [dir |-> prefix.dir, stem |-> prefix.stem, ext |-> ext]

\* ------------------------------------------------------------------------
\* get_genotypes: parameter fan-out and pool sizes
\* ------------------------------------------------------------------------
\* Mutant: the pool gets one worker per file, whatever --processes says.
PoolSizeUnbounded(processes, n) == n

PoolSize(processes, n) == Min(processes, n)

WorkerProcesses(processes, n) == Max(1, IntOfFloat(FloatDiv(processes, n)))

WorkerMemory(memory, processes, n) == FloatDiv(memory, Min(processes, n))

DirOrTemp(dir, tmp) == IF dir # None THEN dir ELSE tmp

prepare_quasar_input_params(n, pe, tmp) ==
    [bam_dir |-> DirOrTemp(args.bam_dir, tmp),
     intermediate_dir |-> DirOrTemp(args.inter_dir, tmp),
     processes |-> WorkerProcesses(args.processes, n),
     memory |-> WorkerMemory(args.memory, args.processes, n),
     paired_end |-> pe,
     skip_preprocessing |-> args.skip_preprocessing,
     write_bam |-> args.write_bam]

GenotypePoolSize(processes, n_single_end, n_paired_end) ==
    Min(processes, Max(n_single_end, n_paired_end))

\* ------------------------------------------------------------------------
\* prepare_quasar_input: the steps of one worker.  A task's position is the
\* source line of the call it is about to make.
\* ------------------------------------------------------------------------
StepName(line) ==
    CASE line = 103 -> "open_log"
      [] line = 104 -> "SequenceAlignment"
      [] line = 123 -> "apply_quality_filter"
      [] line = 124 -> "remove_supplementary_alignments"
      [] line = 125 -> "remove_blacklisted_reads"
      [] line = 126 -> "samtools_sort"
      [] line = 127 -> "samtools_index"
      [] line = 128 -> "restrict_chromosomes"
      [] line = 129 -> "samtools_index"
      [] line = 131 -> "write"
      [] line = 132 -> "remove_duplicates"
      [] line = 133 -> "samtools_sort"
      [] line = 136 -> "samtools_mpileup"
      [] line = 135 -> "write_compressed_pileup_bed"
      [] line = 143 -> "bed_to_quasar"
      [] line = 145 -> "isfile"

\* Mutant: the filtered BAM is written after duplicate removal.
NextLineWriteLate(line, skip_preprocessing, write_bam) ==
    CASE line = 103 -> 104
      [] line = 104 -> IF ~skip_preprocessing THEN 123 ELSE 136
      [] line \in 123..128 -> line + 1
      [] line = 129 -> 132
      [] line = 132 -> IF write_bam THEN 131 ELSE 133
      [] line = 131 -> 133
      [] line = 133 -> 136
      [] line = 136 -> 135
      [] line = 135 -> 143
      [] line = 143 -> 145
      [] line = 145 -> 0

\* Mutant: skip_preprocessing is not honoured.
NextLineIgnoreSkip(line, skip_preprocessing, write_bam) ==
    CASE line = 103 -> 104
      [] line = 104 -> 123
      [] line \in 123..128 -> line + 1
      [] line = 129 -> IF write_bam THEN 131 ELSE 132
      [] line = 131 -> 132
      [] line = 132 -> 133
      [] line = 133 -> 136
      [] line = 136 -> 135
      [] line = 135 -> 143
      [] line = 143 -> 145
      [] line = 145 -> 0

\* The line executed after `line`; 0 when the function returns.
NextLine(line, skip_preprocessing, write_bam) ==
    CASE line = 103 -> 104
      [] line = 104 -> IF ~skip_preprocessing THEN 123 ELSE 136
      [] line \in 123..128 -> line + 1
      [] line = 129 -> IF write_bam THEN 131 ELSE 132
      [] line = 131 -> 132
      [] line = 132 -> 133
      [] line = 133 -> 136
      [] line = 136 -> 135
      [] line = 135 -> 143
      [] line = 143 -> 145
      [] line = 145 -> 0

\* Lines whose call runs an external tool or opens a file, and may raise.
FailableLines == (103..104) \cup (123..129) \cup (131..133) \cup {135, 136, 143}

BamPrefix(t) == Prefix(t.params.bam_dir, t.input)
IntermediatePrefix(t) == Prefix(t.params.intermediate_dir, t.input)

AlignLogPath(t) == PathOf(BamPrefix(t), ".align.log")
FiltBamPath(t) == PathOf(BamPrefix(t), ".filt.bam")
PileupPath(t) == PathOf(IntermediatePrefix(t), ".pileup.bed.gz")
QuasarInputPath(t) == PathOf(IntermediatePrefix(t), ".quasar.in.gz")

\* The file a step writes, as a set (empty when it writes none here).
Written(t, line) ==
    CASE line = 103 -> {AlignLogPath(t)}
      [] line = 131 -> {FiltBamPath(t)}
      [] line = 135 -> {PileupPath(t)}
      [] OTHER -> {}

BatchIds(b) == {id \in DOMAIN tasks : id[1] = b}
Running(b) == {id \in BatchIds(b) : tasks[id].status = "running"}
Inputs(b) == IF b = "se" THEN args.single_end ELSE args.paired_end
MapPc(b) == IF b = "se" THEN "se_map" ELSE "pe_map"
OpenPc(b) == IF b = "se" THEN "single_end" ELSE "paired_end"
AfterPc(b) == IF b = "se" THEN "paired_end" ELSE "genotype_pool"

\* TemporaryDirectory.__exit__: the directory goes with everything in it.
RemoveTree(files, dir) == {f \in files : f.dir # dir}

\* ------------------------------------------------------------------------
\* Initial states: main is about to parse a command line.
\* ------------------------------------------------------------------------
DefaultMemory == 8

NoTasks == [id \in {} |-> 0]

MemIdle == [stage |-> "idle"]

Init ==
    /\ args \in [single_end : InputLists(SingleEndUniverse),
                 paired_end : InputLists(PairedEndUniverse),
                 bam_dir : {None, "bam"},
                 inter_dir : {None, "inter"},
                 processes : 1..MaxProcesses,
                 memory : {DefaultMemory},
                 skip_preprocessing : BOOLEAN,
                 write_bam : BOOLEAN]
    /\ Len(args.single_end) + Len(args.paired_end) <= MaxFiles
    /\ output_options = [quiet |-> "unread", vcf_chr |-> "unread"]
    /\ pc = "parse"
    /\ pool = None
    /\ pools_created = << >>
    /\ temp_dir_name = None
    /\ temp_count = 0
    /\ tasks = NoTasks
    /\ fs = {}
    /\ writes = {}
    /\ genotype_calls = << >>
    /\ vcf = [kind |-> None, lines |-> << >>]
    /\ stdout = << >>
    /\ split_vcf = << >>
    /\ error = None
    /\ mem = MemIdle

\* ------------------------------------------------------------------------
\* parse_arguments
\* ------------------------------------------------------------------------
\* Mutant: the check for an empty command line is missing.
NoInputFilesUnchecked(a) == FALSE

NoInputFiles(a) == Len(a.single_end) + Len(a.paired_end) = 0

ParseArguments ==
    /\ pc = "parse"
    /\ IF NoInputFiles(args)
       THEN pc' = "raised" /\ error' = "No input files provided"
       ELSE pc' = "single_end" /\ error' = error
    /\ UNCHANGED <<args, output_options, pool, pools_created, temp_dir_name, temp_count, tasks,
                   fs, writes, genotype_calls, vcf, stdout, split_vcf, mem>>

\* ------------------------------------------------------------------------
\* get_genotypes: one batch (single-end, then paired-end)
\* ------------------------------------------------------------------------
NewTask(input, params) ==
    [input |-> input, params |-> params, status |-> "queued", line |-> 0,
     trace |-> << >>, result |-> << >>]

\* `if n > 0: with Pool(...) as pool, TemporaryDirectory(...) as temp_dir_name`
\* up to the call of pool.map, or the else branch (an empty result list).
OpenBatch(b) ==
    /\ pc = OpenPc(b)
    /\ LET files == Inputs(b)
           n == Len(files)
           tmp == TmpNames[temp_count + 1]
       IN IF n > 0
          THEN /\ pool' = PoolSize(args.processes, n)
               /\ pools_created' = Append(pools_created, pool')
               /\ temp_dir_name' = tmp
               /\ temp_count' = temp_count + 1
               /\ tasks' = [id \in DOMAIN tasks \cup {<<b, i>> : i \in 1..n} |->
                              IF id \in DOMAIN tasks THEN tasks[id]
                              ELSE NewTask(files[id[2]],
                                     prepare_quasar_input_params(n, b = "pe", tmp))]
               /\ pc' = MapPc(b)
          ELSE /\ pc' = AfterPc(b)
               /\ UNCHANGED <<pool, pools_created, temp_dir_name, temp_count, tasks>>
    /\ UNCHANGED <<args, output_options, fs, writes, genotype_calls, vcf, stdout, split_vcf,
                   error, mem>>

\* The pool hands the next queued file to an idle worker.
StartTask(id) ==
    /\ id \in DOMAIN tasks
    /\ pc = MapPc(id[1])
    /\ tasks[id].status = "queued"
    /\ \A j \in BatchIds(id[1]) : j[2] < id[2] => tasks[j].status # "queued"
    /\ Cardinality(Running(id[1])) < pool
    /\ tasks' = [tasks EXCEPT ![id].status = "running", ![id].line = 103]
    /\ UNCHANGED <<args, output_options, pc, pool, pools_created, temp_dir_name, temp_count, fs,
                   writes, genotype_calls, vcf, stdout, split_vcf, error, mem>>

\* One call of prepare_quasar_input succeeds and control moves on.
Step(id) ==
    /\ id \in DOMAIN tasks
    /\ pc = MapPc(id[1])
    /\ tasks[id].status = "running"
    /\ LET t == tasks[id]
           next == NextLine(t.line, t.params.skip_preprocessing, t.params.write_bam)
           out == Written(t, t.line)
       IN /\ \E produced \in BOOLEAN :
               \* bed_to_quasar may leave no QuASAR input file behind
               /\ t.line # 143 => produced
               /\ LET made == out \cup (IF t.line = 143 /\ produced
                                        THEN {QuasarInputPath(t)} ELSE {})
                  IN /\ fs' = fs \cup made
                     /\ writes' = writes \cup {<<id, f>> : f \in made}
          /\ tasks' = [tasks EXCEPT
                 ![id].trace = Append(t.trace, StepName(t.line)),
                 ![id].line = next,
                 ![id].status = IF next = 0 THEN "done" ELSE "running",
                 ![id].result = IF t.line = 145 /\ QuasarInputPath(t) \in fs
                                THEN <<QuasarInputPath(t)>> ELSE << >>]
    /\ UNCHANGED <<args, output_options, pc, pool, pools_created, temp_dir_name, temp_count,
                   genotype_calls, vcf, stdout, split_vcf, error, mem>>

\* One call of prepare_quasar_input raises: the worker's task fails.  The
\* exception unwinds the call, so nothing of its frame is left.
Unwound(t, status) == [t EXCEPT !.status = status, !.line = 0, !.trace = << >>]

Fail(id) ==
    /\ id \in DOMAIN tasks
    /\ pc = MapPc(id[1])
    /\ tasks[id].status = "running"
    /\ tasks[id].line \in FailableLines
    /\ tasks' = [tasks EXCEPT ![id] = Unwound(tasks[id], "failed")]
    /\ UNCHANGED <<args, output_options, pc, pool, pools_created, temp_dir_name, temp_count, fs,
                   writes, genotype_calls, vcf, stdout, split_vcf, error, mem>>

\* pool.map returns the results; both context managers exit.
MapReturn(b) ==
    /\ pc = MapPc(b)
    /\ \A id \in BatchIds(b) : tasks[id].status = "done"
    /\ pc' = AfterPc(b)
    /\ fs' = RemoveTree(fs, temp_dir_name)
    /\ temp_dir_name' = None
    /\ pool' = None
    /\ UNCHANGED <<args, output_options, pools_created, temp_count, tasks, writes,
                   genotype_calls, vcf, stdout, split_vcf, error, mem>>

\* Mutant: a worker's exception is swallowed (its result counts as None) and
\* get_genotypes carries on once the other workers are through.
MapRaiseSwallowed(b) ==
    /\ pc = MapPc(b)
    /\ \E id \in BatchIds(b) : tasks[id].status = "failed"
    /\ \A id \in BatchIds(b) : tasks[id].status \in {"done", "failed"}
    /\ pc' = AfterPc(b)
    /\ fs' = RemoveTree(fs, temp_dir_name)
    /\ temp_dir_name' = None
    /\ pool' = None
    /\ UNCHANGED <<args, output_options, pools_created, temp_count, tasks,
                   writes, genotype_calls, vcf, stdout, split_vcf, error, mem>>

\* pool.map re-raises a worker's exception; the context managers exit (the
\* pool is terminated) and the exception leaves get_genotypes and main.
MapRaise(b) ==
    /\ pc = MapPc(b)
    /\ \E id \in BatchIds(b) : tasks[id].status = "failed"
    /\ pc' = "raised"
    /\ error' = "worker"
    /\ tasks' = [id \in DOMAIN tasks |->
                   IF tasks[id].status = "running"
                   THEN Unwound(tasks[id], "terminated")
                   ELSE tasks[id]]
    /\ fs' = RemoveTree(fs, temp_dir_name)
    /\ temp_dir_name' = None
    /\ pool' = None
    /\ UNCHANGED <<args, output_options, pools_created, temp_count, writes, genotype_calls, vcf,
                   stdout, split_vcf, mem>>

\* ------------------------------------------------------------------------
\* get_genotypes: the combined call
\* ------------------------------------------------------------------------
RECURSIVE Results(_, _)
Results(b, n) ==
    IF n = 0 THEN << >> ELSE Results(b, n - 1) \o tasks[<<b, n>>].result

\* Mutant: the paired-end paths are passed before the single-end paths.
GenotypeArgumentsSwapped ==
    Results("pe", Len(args.paired_end)) \o Results("se", Len(args.single_end))

\* filter(None, single_end_quasar_input_paths + paired_end_quasar_input_paths)
GenotypeArguments ==
    Results("se", Len(args.single_end)) \o Results("pe", Len(args.paired_end))

EnterGenotype ==
    /\ pc = "genotype_pool"
    /\ pool' = GenotypePoolSize(args.processes, Len(args.single_end),
                                Len(args.paired_end))
    /\ pools_created' = Append(pools_created, pool')
    /\ temp_dir_name' = TmpNames[temp_count + 1]
    /\ temp_count' = temp_count + 1
    /\ pc' = "genotype"
    /\ UNCHANGED <<args, output_options, tasks, fs, writes, genotype_calls, vcf, stdout,
                   split_vcf, error, mem>>

\* pyQuASAR.genotype(*paths), then the exit of the with block.  The call
\* reads the files it is given: it cannot succeed on a file that does not
\* exist, nor without any file; otherwise it may succeed or raise.
CallGenotype ==
    /\ pc = "genotype"
    /\ LET paths == GenotypeArguments
           missing == {paths[i] : i \in 1..Len(paths)} \ fs
       IN /\ genotype_calls' = Append(genotype_calls,
                                      [paths |-> paths, missing |-> missing])
          /\ \E ok \in BOOLEAN :
               /\ ok => (missing = {} /\ Len(paths) >= 1)
               /\ IF ok
                  THEN pc' = "genotype_to_vcf" /\ error' = error
                  ELSE pc' = "raised" /\ error' = "genotype"
    /\ fs' = RemoveTree(fs, temp_dir_name)
    /\ temp_dir_name' = None
    /\ pool' = None
    /\ UNCHANGED <<args, output_options, pools_created, temp_count, tasks, writes, vcf, stdout,
                   split_vcf, mem>>

\* ------------------------------------------------------------------------
\* main: the VCF and its destinations
\* ------------------------------------------------------------------------
VcfKinds == {"generator", "list"}

\* Iterating over v: what the consumer receives, and v afterwards.
Drain(v) == IF v.kind = "generator" THEN [v EXCEPT !.lines = << >>] ELSE v

\* Mutant: the VCF is not copied into a tuple before it is consumed twice.
MaterializeSkipped(v) == v

\* tuple(vcf)
Materialize(v) == [kind |-> "tuple", lines |-> v.lines]

GenotypeToVcf ==
    /\ pc = "genotype_to_vcf"
    /\ \E kind \in VcfKinds : vcf' = [kind |-> kind, lines |-> VcfLines]
    /\ pc' = "tuple"
    /\ UNCHANGED <<args, output_options, pool, pools_created, temp_dir_name, temp_count, tasks,
                   fs, writes, genotype_calls, stdout, split_vcf, error, mem>>

\* argparse fixed --quiet and --vcf-chr with the rest of the command line;
\* nothing reads them before this line, so their values are drawn here.
TupleVcf ==
    /\ pc = "tuple"
    /\ \E quiet \in BOOLEAN, vcf_chr \in {None, "out"} :
         /\ output_options' = [quiet |-> quiet, vcf_chr |-> vcf_chr]
         /\ vcf' = IF vcf_chr # None /\ ~quiet THEN Materialize(vcf) ELSE vcf
    /\ pc' = "write_split"
    /\ UNCHANGED <<args, pool, pools_created, temp_dir_name, temp_count, tasks,
                   fs, writes, genotype_calls, stdout, split_vcf, error, mem>>

WriteSplitVcf ==
    /\ pc = "write_split"
    /\ IF output_options.vcf_chr # None
       THEN split_vcf' = vcf.lines /\ vcf' = Drain(vcf)
       ELSE UNCHANGED <<split_vcf, vcf>>
    /\ pc' = "print"
    /\ UNCHANGED <<args, output_options, pool, pools_created, temp_dir_name, temp_count, tasks,
                   fs, writes, genotype_calls, stdout, error, mem>>

PrintVcf ==
    /\ pc = "print"
    /\ IF ~output_options.quiet
       THEN stdout' = vcf.lines /\ vcf' = Drain(vcf)
       ELSE UNCHANGED <<stdout, vcf>>
    /\ pc' = "done"
    /\ UNCHANGED <<args, output_options, pool, pools_created, temp_dir_name, temp_count, tasks,
                   fs, writes, genotype_calls, split_vcf, error, mem>>

TaskIds == {<<b, i>> : b \in {"se", "pe"}, i \in 1..MaxFiles}

Next ==
    \/ ParseArguments
    \/ \E b \in {"se", "pe"} : OpenBatch(b)
    \/ \E id \in TaskIds : StartTask(id)
    \/ \E id \in TaskIds : Step(id)
    \/ \E id \in TaskIds : Fail(id)
    \/ \E b \in {"se", "pe"} : MapReturn(b)
    \/ \E b \in {"se", "pe"} : MapRaise(b)
    \/ EnterGenotype
    \/ CallGenotype
    \/ GenotypeToVcf
    \/ TupleVcf
    \/ WriteSplitVcf
    \/ PrintVcf

Spec == Init /\ [][Next]_vars

\* ------------------------------------------------------------------------
\* The parameter fan-out of one batch on its own: for a command line with
\* `processes` processes, `memory` GB and a batch of n files, the pool size
\* and the per-worker parameters that get_genotypes computes.
\* ------------------------------------------------------------------------
InitMem ==
    /\ args = [single_end |-> << >>, paired_end |-> << >>, bam_dir |-> None,
               inter_dir |-> None, processes |-> 1, memory |-> DefaultMemory,
               skip_preprocessing |-> FALSE, write_bam |-> FALSE]
    /\ output_options = [quiet |-> "unread", vcf_chr |-> "unread"]
    /\ pc = "fan_out"
    /\ pool = None
    /\ pools_created = << >>
    /\ temp_dir_name = None
    /\ temp_count = 0
    /\ tasks = NoTasks
    /\ fs = {}
    /\ writes = {}
    /\ genotype_calls = << >>
    /\ vcf = [kind |-> None, lines |-> << >>]
    /\ stdout = << >>
    /\ split_vcf = << >>
    /\ error = None
    /\ mem \in [stage : {"args"}, processes : 1..MaxMemProcesses,
                n : 1..MaxMemFiles, memory : 0..MaxMemory]

FanOut ==
    /\ mem.stage = "args"
    /\ mem' = [stage |-> "params", processes |-> mem.processes, n |-> mem.n,
               memory |-> mem.memory,
               pool |-> PoolSize(mem.processes, mem.n),
               worker_processes |-> WorkerProcesses(mem.processes, mem.n),
               worker_memory |-> WorkerMemory(mem.memory, mem.processes, mem.n)]
    /\ UNCHANGED <<args, output_options, pc, pool, pools_created, temp_dir_name,
                   temp_count, tasks, fs, writes, genotype_calls, vcf, stdout,
                   split_vcf, error>>

NextMem == FanOut

SpecMem == InitMem /\ [][NextMem]_vars

\* ========================================================================
\* Properties
\* ========================================================================
IsPrefix(s, t) == Len(s) <= Len(t) /\ SubSeq(t, 1, Len(s)) = s

FullPipeline(write_bam) ==
    <<"open_log", "SequenceAlignment", "apply_quality_filter",
      "remove_supplementary_alignments", "remove_blacklisted_reads",
      "samtools_sort", "samtools_index", "restrict_chromosomes",
      "samtools_index">>
    \o (IF write_bam THEN <<"write">> ELSE << >>)
    \o <<"remove_duplicates", "samtools_sort", "samtools_mpileup",
         "write_compressed_pileup_bed", "bed_to_quasar", "isfile">>

SkippedPipeline ==
    <<"open_log", "SequenceAlignment", "samtools_mpileup",
      "write_compressed_pileup_bed", "bed_to_quasar", "isfile">>

Contains(seq, x) == \E i \in 1..Len(seq) : seq[i] = x

\* C1: without skip_preprocessing, the calls a worker has made so far are
\* always an initial part of: quality filter, supplementary removal,
\* blacklist removal, sort, index, chromosome restriction, index, (write of
\* the .filt.bam only if write_bam), duplicate removal, sort, mpileup,
\* compressed pileup write, bed_to_quasar (after opening the log and building
\* the alignment), and are all of it once the worker has returned.  The
\* .filt.bam is written only with write_bam, and before duplicate removal;
\* the pileup is written only after duplicate removal and the last sort.
C1_StepOrder ==
    \A id \in DOMAIN tasks :
        LET t == tasks[id]
        IN ~t.params.skip_preprocessing =>
             /\ IsPrefix(t.trace, FullPipeline(t.params.write_bam))
             /\ t.status = "done" => t.trace = FullPipeline(t.params.write_bam)
             /\ <<id, FiltBamPath(t)>> \in writes => t.params.write_bam
             /\ (t.params.write_bam /\ Contains(t.trace, "remove_duplicates"))
                   => <<id, FiltBamPath(t)>> \in writes
             /\ Contains(t.trace, "samtools_mpileup")
                   => /\ Contains(t.trace, "remove_duplicates")
                      /\ t.trace[Len(FullPipeline(t.params.write_bam)) - 4]
                            = "samtools_sort"

C1_Witness ==
    \E id \in DOMAIN tasks :
        /\ tasks[id].status = "done"
        /\ ~tasks[id].params.skip_preprocessing
        /\ tasks[id].params.write_bam
        /\ <<id, FiltBamPath(tasks[id])>> \in writes

\* C2: the files written by two different workers of one run are different
\* files, because the output paths derived for two distinct input files
\* differ.
OutputPaths(t) ==
    {AlignLogPath(t), FiltBamPath(t), PileupPath(t), QuasarInputPath(t)}

C2_DistinctOutputs ==
    /\ \A w1 \in writes, w2 \in writes : w1[2] = w2[2] => w1[1] = w2[1]
    /\ \A i \in DOMAIN tasks, j \in DOMAIN tasks :
          (i # j /\ tasks[i].input # tasks[j].input)
             => OutputPaths(tasks[i]) \cap OutputPaths(tasks[j]) = {}

\* C3: at every moment the workers running in a batch of n files number at
\* most min(processes, n), their count times the per-worker processes value
\* max(1, floor(processes / n)) is at most processes, and no single-end
\* worker runs while a paired-end worker runs.
C3_BoundedPool ==
    /\ \A b \in {"se", "pe"} :
          LET n == Len(Inputs(b))
              k == Cardinality(Running(b))
          IN /\ k <= Min(args.processes, n)
             /\ \A id \in Running(b) :
                   /\ tasks[id].params.processes = Max(1, args.processes \div n)
                   /\ k * tasks[id].params.processes <= args.processes
    /\ ~(Running("se") # {} /\ Running("pe") # {})

C3_Witness ==
    \E b \in {"se", "pe"} :
        /\ Cardinality(Running(b)) = args.processes
        /\ \E id \in BatchIds(b) : tasks[id].status = "queued"

\* C4: once a step of a worker has failed, in either batch,
\* pyQuASAR.genotype is never called, no VCF exists or is emitted, and main
\* does not get past the batch: it ends with the worker's exception.
C4_ErrorsPropagate ==
    (\E id \in DOMAIN tasks : tasks[id].status = "failed") =>
        /\ genotype_calls = << >>
        /\ vcf.kind = None
        /\ stdout = << >>
        /\ split_vcf = << >>
        /\ pc \in {"se_map", "pe_map", "raised"}
        /\ pc = "raised" => error = "worker"

C4_Witness ==
    /\ pc = "raised"
    /\ error = "worker"
    /\ \E id \in BatchIds("pe") : tasks[id].status = "failed"
    /\ \E id \in BatchIds("se") : tasks[id].status = "done"

\* C5 as stated: whatever --quiet and --vcf-chr are, a run of main that ends
\* has delivered every VCF line to standard output or to the split files,
\* and every destination in use has all of them.
C5_AlwaysDelivered ==
    pc = "done" =>
        /\ stdout = VcfLines \/ split_vcf = VcfLines
        /\ ~output_options.quiet => stdout = VcfLines
        /\ output_options.vcf_chr # None => split_vcf = VcfLines

\* C5 amended: a run of main that ends has delivered every VCF line to each
\* destination that is selected (standard output unless --quiet, the split
\* files if --vcf-chr) and nothing to one that is not; with --quiet and no
\* --vcf-chr no line is delivered anywhere.
C5_DeliveredWhereSelected ==
    pc = "done" =>
        /\ stdout = IF output_options.quiet THEN << >> ELSE VcfLines
        /\ split_vcf = IF output_options.vcf_chr = None THEN << >> ELSE VcfLines

C5_Witness ==
    /\ pc = "done"
    /\ ~output_options.quiet
    /\ output_options.vcf_chr # None
    /\ stdout = VcfLines
    /\ split_vcf = VcfLines

\* The QuASAR input path of the n-th file of batch b, as a one-element list.
ExpectedPath(b, n) ==
    <<[dir |-> DirOrTemp(args.inter_dir, tasks[<<b, n>>].params.intermediate_dir),
       stem |-> Stem(Inputs(b)[n]),
       ext |-> ".quasar.in.gz"]>>

RECURSIVE AllPaths(_, _)
AllPaths(b, n) ==
    IF n = 0 THEN << >> ELSE AllPaths(b, n - 1) \o ExpectedPath(b, n)

\* ... of those files only whose worker returned a path and not None.
RECURSIVE ReturnedPaths(_, _)
ReturnedPaths(b, n) ==
    IF n = 0 THEN << >>
    ELSE ReturnedPaths(b, n - 1)
         \o (IF tasks[<<b, n>>].result # << >> THEN ExpectedPath(b, n) ELSE << >>)

ReturnedPcs == {"genotype_to_vcf", "tuple", "write_split", "print", "done"}

AllInputIds ==
    {<<"se", i>> : i \in 1..Len(args.single_end)}
    \cup {<<"pe", i>> : i \in 1..Len(args.paired_end)}

C7_MemoryFanOutExact ==
    mem.stage = "params" =>
        LET total == FloatMulInt(mem.worker_memory, mem.pool)
        IN /\ mem.pool = Min(mem.processes, mem.n)
           /\ total = FloatOfInt(mem.memory)
           /\ ~FloatLess(FloatOfInt(mem.memory), total)

\* C8: every path handed to pyQuASAR.genotype names a file that exists when
\* the call is made.
C8_ArgumentsExist ==
    \A i \in 1..Len(genotype_calls) : genotype_calls[i].missing = {}

\* C9: with skip_preprocessing a worker makes no preprocessing call and
\* writes no .filt.bam, even with write_bam: after opening the log and
\* building the alignment its calls are mpileup, compressed pileup write and
\* bed_to_quasar, in that order, all of them once it has returned.
C9_SkipPreprocessing ==
    \A id \in DOMAIN tasks :
        LET t == tasks[id]
        IN t.params.skip_preprocessing =>
             /\ IsPrefix(t.trace, SkippedPipeline)
             /\ t.status = "done" => t.trace = SkippedPipeline
             /\ <<id, FiltBamPath(t)>> \notin writes
             /\ \A f \in fs : f.ext # ".filt.bam"

C9_Witness ==
    \E id \in DOMAIN tasks :
        /\ tasks[id].status = "done"
        /\ tasks[id].params.skip_preprocessing
        /\ tasks[id].params.write_bam

\* C10: with both input lists empty main ends in parse_arguments with
\* RuntimeError('No input files provided'): no pool, no temporary directory,
\* no worker and no genotype call.  Past parse_arguments at least one list
\* is non-empty, and every pool ever created has at least one worker.
C10_NoInputRejected ==
    /\ Len(args.single_end) + Len(args.paired_end) = 0 =>
          /\ pc \in {"parse", "raised"}
          /\ pc = "raised" => error = "No input files provided"
          /\ pools_created = << >>
          /\ temp_count = 0
          /\ tasks = NoTasks
          /\ genotype_calls = << >>
    /\ pc \notin {"parse", "raised"} =>
          Len(args.single_end) + Len(args.paired_end) >= 1
    /\ error = "No input files provided" =>
          Len(args.single_end) + Len(args.paired_end) = 0
    /\ \A i \in 1..Len(pools_created) : pools_created[i] >= 1

C10_Witness ==
    /\ pc = "raised"
    /\ error = "No input files provided"
    /\ Len(args.single_end) + Len(args.paired_end) = 0

====
